---- MODULE Spec2Model ----
(***************************************************************************)
(* Dependency and status consistency engine of the task manager:          *)
(* backend/src/models/Task.js (the model layer, one SQL statement per      *)
(* query call), the TaskController handlers that call it, and the          *)
(* constraints of database/schema.sql.                                     *)
(*                                                                         *)
(* The database is the record db = [tasks, deps, seq]:                     *)
(*   tasks  rows of table tasks, a function id -> [user_id, status,        *)
(*          parent_task_id] (the columns the engine reads or writes)       *)
(*   deps   rows of table task_dependencies, pairs <<task_id,              *)
(*          depends_on_task_id>> (a set: UNIQUE(task_id, depends_on))      *)
(*   seq    next value of the SERIAL sequence tasks.id                     *)
(* Every handler is an operator  db, inputs -> [db, res]  and one action   *)
(* of the specification; res is the HTTP response it sends (status code,   *)
(* "error" and "message" of the JSON body), db the database it leaves.     *)
(*                                                                         *)
(* inflight holds the requests whose handler has started and not yet       *)
(* answered, each with the statement it runs next and the values it has   *)
(* read so far.  Spec and SpecColumns run every handler from its first     *)
(* statement to its answer in one step and leave inflight empty;           *)
(* SpecFaults, SpecInterleaved, SpecSubtasks and SpecTermination run a     *)
(* handler one statement at a time.                                        *)
(***************************************************************************)
EXTENDS Integers, FiniteSets, Sequences, TLC

VARIABLES tasks, deps, seq, inflight

vars == <<tasks, deps, seq, inflight>>

\* ---- bounds of the model ------------------------------------------------
MaxTasks == 3
MaxUsers == 2

\* ---- values -------------------------------------------------------------
NULL == 0

Users == 1..MaxUsers

TaskIds == 1..MaxTasks

Status == {"To Do", "In Progress", "Completed", "Blocked"}

DB == [tasks |-> tasks, deps |-> deps, seq |-> seq]

Res(status, error, message) == [status |-> status, error |-> error, message |-> message]

Reply(db, res) == [db |-> db, res |-> res]

\* ---- Task.js: single-statement queries ------------------------------------

\* Task.findById: the row with this id owned by userId, if any
findById(db, taskId, userId) ==
  taskId \in DOMAIN db.tasks /\ db.tasks[taskId].user_id = userId

\* Task.create: INSERT INTO tasks ... RETURNING *, id drawn from the sequence
create(db, userId, parentTaskId, status) ==
  [db EXCEPT !.tasks = (db.seq :> [user_id |-> userId, status |-> status,
                                   parent_task_id |-> parentTaskId]) @@ db.tasks,
             !.seq = db.seq + 1]

\* Ascending sequence of a finite set of ids: the order in which the model
\* walks the rows of a query (the row order never changes a result here).
RECURSIVE SortedSeq(_)
SortedSeq(S) ==
  IF S = {} THEN <<>>
  ELSE LET m == CHOOSE x \in S : \A y \in S : x <= y
       IN <<m>> \o SortedSeq(S \ {m})

\* A JavaScript id value: req.params and JSON strings are strings, JSON numbers
\* and integer columns read back from the database are numbers.  A Set tells
\* "3" from 3; a SQL parameter is coerced to the integer either way.
Num(n) == <<"number", n>>

Str(n) == <<"string", n>>

ToInt(k) == k[2]

\* Task.update: UPDATE tasks SET <every key of updateData> WHERE id AND user_id.
\* updateData is a function from column names to values; the statement fails
\* when a foreign key is violated (parent_task_id, user_id).
update(db, taskId, userId, updateData) ==
  IF DOMAIN updateData = {}
    THEN [db |-> db, out |-> "throw"]
  ELSE IF ~findById(db, taskId, userId)
    THEN [db |-> db, out |-> "none"]
  ELSE IF \/ /\ "parent_task_id" \in DOMAIN updateData
              /\ updateData["parent_task_id"] # NULL
              /\ updateData["parent_task_id"] \notin DOMAIN db.tasks
          \/ /\ "user_id" \in DOMAIN updateData
              /\ updateData["user_id"] \notin Users
    THEN [db |-> db, out |-> "throw"]
  ELSE LET old == db.tasks[taskId]
           new == [c \in DOMAIN old |->
                     IF c \in DOMAIN updateData THEN updateData[c] ELSE old[c]]
       IN [db |-> [db EXCEPT !.tasks[taskId] = new], out |-> "row"]

\* ON DELETE CASCADE of tasks.parent_task_id: the rows deleted with the rows D
RECURSIVE CascadeDelete(_, _)
CascadeDelete(db, D) ==
  LET more == {t \in DOMAIN db.tasks : db.tasks[t].parent_task_id \in D} \ D
  IN IF more = {} THEN D ELSE CascadeDelete(db, D \cup more)

\* a schema whose cascade covers task_dependencies.task_id only
delete_TaskIdSideOnly(db, taskId, userId) ==
  IF ~findById(db, taskId, userId)
    THEN [db |-> db, out |-> "none"]
  ELSE LET D == CascadeDelete(db, {taskId})
       IN [db |-> [db EXCEPT
                    !.tasks = [t \in DOMAIN db.tasks \ D |-> db.tasks[t]],
                    !.deps = {e \in db.deps : e[1] \notin D}],
           out |-> "row"]

\* Task.delete: DELETE FROM tasks WHERE id AND user_id, with the cascades of
\* the schema (subtasks, and dependency rows on either side)
delete(db, taskId, userId) ==
  IF ~findById(db, taskId, userId)
    THEN [db |-> db, out |-> "none"]
  ELSE LET D == CascadeDelete(db, {taskId})
       IN [db |-> [db EXCEPT
                    !.tasks = [t \in DOMAIN db.tasks \ D |-> db.tasks[t]],
                    !.deps = {e \in db.deps : e[1] \notin D /\ e[2] \notin D}],
           out |-> "row"]

\* Task.getDependents: tasks of userId with an edge to taskId
getDependents(db, taskId, userId) ==
  {e[1] : e \in {x \in db.deps : x[2] = taskId /\ db.tasks[x[1]].user_id = userId}}

\* a walk that takes every task it has seen before for a task of the current
\* path (one Set instead of two)
RECURSIVE checkCircularDependency_VisitedIsPath(_, _, _, _, _)
RECURSIVE checkRows_VisitedIsPath(_, _, _, _, _)
checkCircularDependency_VisitedIsPath(db, fromTaskId, toTaskId, visited, path) ==
  IF toTaskId \in visited
    THEN [result |-> TRUE, visited |-> visited, path |-> path]
  ELSE LET rows == SortedSeq({e[2] : e \in {x \in db.deps : x[1] = ToInt(toTaskId)}})
           r == checkRows_VisitedIsPath(db, fromTaskId, rows,
                                        visited \cup {toTaskId}, path \cup {toTaskId})
       IN IF r.result THEN r ELSE [r EXCEPT !.path = r.path \ {toTaskId}]

checkRows_VisitedIsPath(db, fromTaskId, rows, visited, path) ==
  IF rows = <<>>
    THEN [result |-> FALSE, visited |-> visited, path |-> path]
  ELSE LET r == checkCircularDependency_VisitedIsPath(db, fromTaskId, Num(Head(rows)),
                                                      visited, path)
       IN IF r.result THEN r
          ELSE checkRows_VisitedIsPath(db, fromTaskId, Tail(rows), r.visited, r.path)

\* Task.checkCircularDependency: the recursive DFS, with the two Sets it shares
\* between calls returned next to the boolean result
RECURSIVE checkCircularDependency(_, _, _, _, _)
RECURSIVE checkRows(_, _, _, _, _)
checkCircularDependency(db, fromTaskId, toTaskId, visited, path) ==
  IF toTaskId \in path
    THEN [result |-> TRUE, visited |-> visited, path |-> path]
  ELSE IF toTaskId \in visited
    THEN [result |-> FALSE, visited |-> visited, path |-> path]
  ELSE LET rows == SortedSeq({e[2] : e \in {x \in db.deps : x[1] = ToInt(toTaskId)}})
           r == checkRows(db, fromTaskId, rows,
                          visited \cup {toTaskId}, path \cup {toTaskId})
       IN IF r.result THEN r ELSE [r EXCEPT !.path = r.path \ {toTaskId}]

\* the for loop of checkCircularDependency over dependencies.rows
checkRows(db, fromTaskId, rows, visited, path) ==
  IF rows = <<>>
    THEN [result |-> FALSE, visited |-> visited, path |-> path]
  ELSE LET r == checkCircularDependency(db, fromTaskId, Num(Head(rows)), visited, path)
       IN IF r.result THEN r
          ELSE checkRows(db, fromTaskId, Tail(rows), r.visited, r.path)

\* Task.validateDependencies
validateDependencies(db, taskId, dependsOnTaskId) ==
  checkCircularDependency(db, taskId, dependsOnTaskId, {}, {}).result

\* a recompute whose unblocking test lost its negation
updateTaskStatusBasedOnDependencies_UnblockNotNegated(db, taskId) ==
  LET hasIncompleteDeps ==
        \E e \in db.deps : e[1] = taskId /\ db.tasks[e[2]].status # "Completed"
  IN IF taskId \notin DOMAIN db.tasks THEN db
     ELSE LET currentStatus == db.tasks[taskId].status
          IN IF hasIncompleteDeps /\ currentStatus # "Blocked" /\ currentStatus # "Completed"
               THEN [db EXCEPT !.tasks[taskId].status = "Blocked"]
             ELSE IF hasIncompleteDeps /\ currentStatus = "Blocked"
               THEN [db EXCEPT !.tasks[taskId].status = "To Do"]
             ELSE db

\* a recompute whose blocking test does not spare a Completed task
updateTaskStatusBasedOnDependencies_BlocksCompleted(db, taskId) ==
  LET hasIncompleteDeps ==
        \E e \in db.deps : e[1] = taskId /\ db.tasks[e[2]].status # "Completed"
  IN IF taskId \notin DOMAIN db.tasks THEN db
     ELSE LET currentStatus == db.tasks[taskId].status
          IN IF hasIncompleteDeps /\ currentStatus # "Blocked"
               THEN [db EXCEPT !.tasks[taskId].status = "Blocked"]
             ELSE IF ~hasIncompleteDeps /\ currentStatus = "Blocked"
               THEN [db EXCEPT !.tasks[taskId].status = "To Do"]
             ELSE db

\* Task.updateTaskStatusBasedOnDependencies
updateTaskStatusBasedOnDependencies(db, taskId) ==
  LET hasIncompleteDeps ==
        \E e \in db.deps : e[1] = taskId /\ db.tasks[e[2]].status # "Completed"
  IN IF taskId \notin DOMAIN db.tasks THEN db
     ELSE LET currentStatus == db.tasks[taskId].status
          IN IF hasIncompleteDeps /\ currentStatus # "Blocked" /\ currentStatus # "Completed"
               THEN [db EXCEPT !.tasks[taskId].status = "Blocked"]
             ELSE IF ~hasIncompleteDeps /\ currentStatus = "Blocked"
               THEN [db EXCEPT !.tasks[taskId].status = "To Do"]
             ELSE db

\* for (const dependent of dependents) updateTaskStatusBasedOnDependencies(...)
RECURSIVE updateEach(_, _)
updateEach(db, rows) ==
  IF rows = <<>> THEN db
  ELSE updateEach(updateTaskStatusBasedOnDependencies(db, Head(rows)), Tail(rows))

\* an addDependency that inserts the row and does not recompute the task
addDependency_NoRecompute(db, taskId, dependsOnTaskId, userId) ==
  LET t == ToInt(taskId)
      d == ToInt(dependsOnTaskId)
      taskCheck == {i \in {t, d} : findById(db, i, userId)}
  IN IF Cardinality(taskCheck) # 2
       THEN [db |-> db, out |-> "One or both tasks not found or not owned by user"]
     ELSE IF checkCircularDependency(db, taskId, dependsOnTaskId, {}, {}).result
       THEN [db |-> db, out |-> "Adding this dependency would create a circular dependency"]
     ELSE IF <<t, d>> \in db.deps
       THEN [db |-> db, out |-> "Dependency already exists"]
     ELSE [db |-> [db EXCEPT !.deps = db.deps \cup {<<t, d>>}], out |-> "row"]

\* Task.addDependency; out is "row" or the message of the Error thrown
addDependency(db, taskId, dependsOnTaskId, userId) ==
  LET t == ToInt(taskId)
      d == ToInt(dependsOnTaskId)
      taskCheck == {i \in {t, d} : findById(db, i, userId)}
  IN IF Cardinality(taskCheck) # 2
       THEN [db |-> db, out |-> "One or both tasks not found or not owned by user"]
     ELSE IF checkCircularDependency(db, taskId, dependsOnTaskId, {}, {}).result
       THEN [db |-> db, out |-> "Adding this dependency would create a circular dependency"]
     ELSE IF <<t, d>> \in db.deps
       THEN [db |-> db, out |-> "Dependency already exists"]
     ELSE [db |-> updateTaskStatusBasedOnDependencies(
                    [db EXCEPT !.deps = db.deps \cup {<<t, d>>}], t),
           out |-> "row"]

\* a removeDependency that recomputes the task before it deletes the row
removeDependency_RecomputeFirst(db, taskId, dependsOnTaskId, userId) ==
  IF ~findById(db, taskId, userId)
    THEN [db |-> db, out |-> "Task not found or not owned by user"]
  ELSE LET recomputed == updateTaskStatusBasedOnDependencies(db, taskId)
       IN [db |-> [recomputed EXCEPT !.deps = db.deps \ {<<taskId, dependsOnTaskId>>}],
           out |-> IF <<taskId, dependsOnTaskId>> \in db.deps THEN "row" ELSE "none"]

\* Task.removeDependency
removeDependency(db, taskId, dependsOnTaskId, userId) ==
  IF ~findById(db, taskId, userId)
    THEN [db |-> db, out |-> "Task not found or not owned by user"]
  ELSE [db |-> updateTaskStatusBasedOnDependencies(
                 [db EXCEPT !.deps = db.deps \ {<<taskId, dependsOnTaskId>>}], taskId),
        out |-> IF <<taskId, dependsOnTaskId>> \in db.deps THEN "row" ELSE "none"]

\* a check that counts only the subtasks still in To Do
canCompleteTask_OnlyToDo(db, taskId) ==
  ~\E s \in DOMAIN db.tasks :
     db.tasks[s].parent_task_id = taskId /\ db.tasks[s].status = "To Do"

\* a check that also wants every dependency of the task Completed
canCompleteTask_AndDependencies(db, taskId) ==
  /\ ~\E s \in DOMAIN db.tasks :
        db.tasks[s].parent_task_id = taskId /\ db.tasks[s].status # "Completed"
  /\ ~\E e \in db.deps : e[1] = taskId /\ db.tasks[e[2]].status # "Completed"

\* Task.canCompleteTask
canCompleteTask(db, taskId) ==
  ~\E s \in DOMAIN db.tasks :
     db.tasks[s].parent_task_id = taskId /\ db.tasks[s].status # "Completed"

\* a completion that writes the status and leaves the dependents alone
markAsCompleted_NoCascade(db, taskId, userId) ==
  IF ~canCompleteTask(db, taskId)
    THEN [db |-> db, out |-> "Cannot complete task: subtasks are not completed"]
  ELSE update(db, taskId, userId, [c \in {"status"} |-> "Completed"])

\* a completion that re-evaluates the first dependent only
markAsCompleted_FirstDependentOnly(db, taskId, userId) ==
  IF ~canCompleteTask(db, taskId)
    THEN [db |-> db, out |-> "Cannot complete task: subtasks are not completed"]
  ELSE LET result == update(db, taskId, userId, [c \in {"status"} |-> "Completed"])
           dependents == SortedSeq({e[1] : e \in {x \in result.db.deps : x[2] = taskId}})
       IN [db |-> updateEach(result.db,
                    IF dependents = <<>> THEN <<>> ELSE <<Head(dependents)>>),
           out |-> result.out]

\* Task.markAsCompleted
markAsCompleted(db, taskId, userId) ==
  IF ~canCompleteTask(db, taskId)
    THEN [db |-> db, out |-> "Cannot complete task: subtasks are not completed"]
  ELSE LET result == update(db, taskId, userId, [c \in {"status"} |-> "Completed"])
           dependents == SortedSeq({e[1] : e \in {x \in result.db.deps : x[2] = taskId}})
       IN [db |-> updateEach(result.db, dependents), out |-> result.out]

\* ---- TaskController.createTask -------------------------------------------
createTask(db, userId, parentTaskId, status) ==
  IF parentTaskId # NULL /\ ~findById(db, parentTaskId, userId)
    THEN Reply(db, Res(404, "Parent task not found",
                 "The specified parent task does not exist or you do not have access to it"))
  ELSE IF parentTaskId # NULL /\ db.tasks[parentTaskId].parent_task_id # NULL
    THEN Reply(db, Res(400, "Invalid parent task",
                 "Cannot create subtask of a subtask. Only one level of nesting is allowed."))
  ELSE Reply(create(db, userId, parentTaskId, status),
             Res(201, "", "Task created successfully"))

\* ---- TaskController.createSubtask ----------------------------------------
createSubtask(db, userId, parentTaskId) ==
  IF ~findById(db, parentTaskId, userId)
    THEN Reply(db, Res(404, "Parent task not found",
                 "The specified parent task does not exist or you do not have access to it"))
  ELSE IF db.tasks[parentTaskId].parent_task_id # NULL
    THEN Reply(db, Res(400, "Invalid parent task",
                 "Cannot create subtask of a subtask. Only one level of nesting is allowed."))
  ELSE Reply(create(db, userId, parentTaskId, "To Do"),
             Res(201, "", "Subtask created successfully"))

\* ---- TaskController.updateTask -------------------------------------------
\* an update that writes Completed without asking canCompleteTask
updateTask_NoGate(db, userId, taskId, updateData) ==
  LET toCompleted == "status" \in DOMAIN updateData /\ updateData["status"] = "Completed"
  IN IF ~findById(db, taskId, userId)
       THEN Reply(db, Res(404, "Task not found",
                    "The requested task does not exist or you do not have access to it"))
     ELSE LET updatedTask == update(db, taskId, userId, updateData)
          IN IF updatedTask.out = "throw"
               THEN Reply(db, Res(500, "Failed to update task",
                            "An error occurred while updating the task"))
             ELSE IF updatedTask.out = "none"
               THEN Reply(db, Res(404, "Task not found", "Task not found or no changes made"))
             ELSE Reply(IF toCompleted
                          THEN updateEach(updatedTask.db,
                                 SortedSeq(getDependents(updatedTask.db, taskId, userId)))
                          ELSE updatedTask.db,
                        Res(200, "", "Task updated successfully"))

updateTask(db, userId, taskId, updateData) ==
  LET toCompleted == "status" \in DOMAIN updateData /\ updateData["status"] = "Completed"
  IN IF ~findById(db, taskId, userId)
       THEN Reply(db, Res(404, "Task not found",
                    "The requested task does not exist or you do not have access to it"))
     ELSE IF toCompleted /\ ~canCompleteTask(db, taskId)
       THEN Reply(db, Res(400, "Cannot complete task",
                    "All subtasks must be completed before completing the parent task"))
     ELSE LET updatedTask == update(db, taskId, userId, updateData)
          IN IF updatedTask.out = "throw"
               THEN Reply(db, Res(500, "Failed to update task",
                            "An error occurred while updating the task"))
             ELSE IF updatedTask.out = "none"
               THEN Reply(db, Res(404, "Task not found", "Task not found or no changes made"))
             ELSE Reply(IF toCompleted
                          THEN updateEach(updatedTask.db,
                                 SortedSeq(getDependents(updatedTask.db, taskId, userId)))
                          ELSE updatedTask.db,
                        Res(200, "", "Task updated successfully"))

\* ---- TaskController.deleteTask -------------------------------------------
deleteTask(db, userId, taskId) ==
  LET deletedTask == delete(db, taskId, userId)
  IN IF deletedTask.out = "none"
       THEN Reply(db, Res(404, "Task not found",
                    "The requested task does not exist or you do not have access to it"))
     ELSE Reply(deletedTask.db, Res(200, "", "Task deleted successfully"))

\* ---- TaskController.addDependency ----------------------------------------
addDependencyHandler(db, userId, taskId, dependsOnTaskId) ==
  IF ~findById(db, ToInt(taskId), userId)
    THEN Reply(db, Res(404, "Task not found",
                 "The specified task does not exist or you do not have access to it"))
  ELSE LET dependency == addDependency(db, taskId, dependsOnTaskId, userId)
       IN IF dependency.out = "row"
            THEN Reply(dependency.db, Res(201, "", "Dependency added successfully"))
          ELSE IF dependency.out = "Adding this dependency would create a circular dependency"
            THEN Reply(db, Res(400, "Circular dependency detected",
                         "Adding this dependency would create a circular dependency chain"))
          ELSE IF dependency.out = "One or both tasks not found or not owned by user"
            THEN Reply(db, Res(404, "Task not found", dependency.out))
          ELSE Reply(db, Res(409, "Dependency already exists",
                       "This dependency relationship already exists"))

\* ---- TaskController.removeDependency -------------------------------------
removeDependencyHandler(db, userId, taskId, dependsOnTaskId) ==
  LET removedDependency == removeDependency(db, taskId, dependsOnTaskId, userId)
  IN IF removedDependency.out = "row"
       THEN Reply(removedDependency.db, Res(200, "", "Dependency removed successfully"))
     ELSE IF removedDependency.out = "none"
       THEN Reply(removedDependency.db, Res(404, "Dependency not found",
                    "The specified dependency does not exist"))
     ELSE Reply(db, Res(500, "Failed to remove dependency",
                  "An error occurred while removing the dependency"))

\* ---- TaskController.validateDependencies ---------------------------------
\* a validation that re-evaluates the status of the task it is asked about
validateDependenciesHandler_Recomputes(db, taskId, dependsOnTaskId) ==
  LET hasCircular == validateDependencies(db, taskId, dependsOnTaskId)
  IN Reply(updateTaskStatusBasedOnDependencies(db, ToInt(taskId)),
           [status |-> 200, error |-> "",
            message |-> "Dependency validation completed",
            hasCircularDependency |-> hasCircular,
            canAddDependency |-> ~hasCircular])

validateDependenciesHandler(db, taskId, dependsOnTaskId) ==
  LET hasCircular == validateDependencies(db, taskId, dependsOnTaskId)
  IN Reply(db, [status |-> 200, error |-> "",
                message |-> "Dependency validation completed",
                hasCircularDependency |-> hasCircular,
                canAddDependency |-> ~hasCircular])

\* ---- TaskController.markAsCompleted --------------------------------------
markAsCompletedHandler(db, userId, taskId) ==
  LET task == markAsCompleted(db, taskId, userId)
  IN IF task.out = "Cannot complete task: subtasks are not completed"
       THEN Reply(db, Res(400, "Cannot complete task",
                    "All subtasks must be completed before completing the parent task"))
     ELSE IF task.out = "none"
       THEN Reply(task.db, Res(404, "Task not found",
                    "The specified task does not exist or you do not have access to it"))
     ELSE Reply(task.db, Res(200, "", "Task marked as completed successfully"))

\* ---- request inputs ------------------------------------------------------
\* a task id as it arrives in a URL (always a string)
ParamIds == {Str(i) : i \in TaskIds}

\* a task id as it arrives in a JSON body (isInt accepts 3 and "3")
BodyIds == {Num(i) : i \in TaskIds} \cup {Str(i) : i \in TaskIds}

\* Request bodies of PUT /tasks/:id with the fields validateTaskUpdate names:
\* the empty body, a body without status (title stands for title, description,
\* dueDate and priority, none of which the engine reads), and a status.
UpdateDatas ==
  {<<>>} \cup {[c \in {"title"} |-> "t"]}
    \cup {[c \in {"status"} |-> s] : s \in Status}

\* validateTaskUpdate rejects no key it does not name and Task.update writes
\* every key of the body as a column: bodies that set parent_task_id or user_id
ColumnDatas ==
  {[c \in {"parent_task_id"} |-> p] : p \in TaskIds \cup {NULL}}
    \cup {[c \in {"user_id"} |-> u] : u \in Users}

\* ---- the specification ---------------------------------------------------
Init ==
  /\ tasks = <<>>
  /\ deps = {}
  /\ seq = 1
  /\ inflight = <<>>

\* POST /tasks, for the statuses a client may ask for
CreateTask(statuses) ==
  \E u \in Users, p \in TaskIds \cup {NULL}, s \in statuses :
    /\ seq <= MaxTasks
    /\ LET r == createTask(DB, u, p, s)
       IN /\ tasks' = r.db.tasks
          /\ deps' = r.db.deps
          /\ seq' = r.db.seq
          /\ UNCHANGED inflight

\* POST /tasks/:id/subtasks
CreateSubtask ==
  \E u \in Users, p \in TaskIds :
    /\ seq <= MaxTasks
    /\ LET r == createSubtask(DB, u, p)
       IN /\ tasks' = r.db.tasks
          /\ deps' = r.db.deps
          /\ seq' = r.db.seq
          /\ UNCHANGED inflight

\* PUT /tasks/:id, for the request bodies of datas
UpdateTask(datas) ==
  \E u \in Users, t \in TaskIds, data \in datas :
    LET r == updateTask(DB, u, t, data)
    IN /\ tasks' = r.db.tasks
       /\ deps' = r.db.deps
       /\ seq' = r.db.seq
       /\ UNCHANGED inflight

\* DELETE /tasks/:id
DeleteTask ==
  \E u \in Users, t \in TaskIds :
    LET r == deleteTask(DB, u, t)
    IN /\ tasks' = r.db.tasks
       /\ deps' = r.db.deps
       /\ seq' = r.db.seq
       /\ UNCHANGED inflight

\* POST /tasks/:id/dependencies
AddDependency ==
  \E u \in Users, t \in ParamIds, d \in BodyIds :
    LET r == addDependencyHandler(DB, u, t, d)
    IN /\ tasks' = r.db.tasks
       /\ deps' = r.db.deps
       /\ seq' = r.db.seq
       /\ UNCHANGED inflight

\* DELETE /tasks/:id/dependencies/:depId
RemoveDependency ==
  \E u \in Users, t \in TaskIds, d \in TaskIds :
    LET r == removeDependencyHandler(DB, u, t, d)
    IN /\ tasks' = r.db.tasks
       /\ deps' = r.db.deps
       /\ seq' = r.db.seq
       /\ UNCHANGED inflight

\* POST /tasks/validate-dependencies
ValidateDependency ==
  \E t \in BodyIds, d \in BodyIds :
    LET r == validateDependenciesHandler(DB, t, d)
    IN /\ tasks' = r.db.tasks
       /\ deps' = r.db.deps
       /\ seq' = r.db.seq
       /\ UNCHANGED inflight

\* PATCH /tasks/:id/complete
MarkCompleted ==
  \E u \in Users, t \in TaskIds :
    LET r == markAsCompletedHandler(DB, u, t)
    IN /\ tasks' = r.db.tasks
       /\ deps' = r.db.deps
       /\ seq' = r.db.seq
       /\ UNCHANGED inflight

\* Every route of the engine, with the request bodies validateTaskUpdate names
Next ==
  \/ CreateTask(Status)
  \/ CreateSubtask
  \/ UpdateTask(UpdateDatas)
  \/ DeleteTask
  \/ AddDependency
  \/ RemoveDependency
  \/ ValidateDependency
  \/ MarkCompleted

Spec == Init /\ [][Next]_vars

\* The same handlers driven with the request bodies that set the columns
\* validateTaskUpdate does not name: the structure (owner, parent, edges) of
\* the database they reach.  Tasks are created in To Do, statuses change only
\* through the recompute of AddDependency and RemoveDependency.
NextColumns ==
  \/ CreateTask({"To Do"})
  \/ CreateSubtask
  \/ UpdateTask(ColumnDatas)
  \/ DeleteTask
  \/ AddDependency
  \/ RemoveDependency

SpecColumns == Init /\ [][NextColumns]_vars

\* ---- handlers one statement at a time --------------------------------------
\* Every `await query(...)` of a handler is one step: the statement runs
\* against the database of that moment, on its own (Task.js never opens a
\* transaction), and another request may run between two steps.  The SELECTs
\* of one checkCircularDependency walk are taken together as one step.
\*
\* A request in flight is a record:
\*   op, u, t, d   the route, req.user.id and the ids of the request (d as it
\*                 arrives: a string of the URL or a value of the JSON body)
\*   pc            the statement the handler runs next, "done" once answered
\*   start         the database when the request was issued
\*   res           the response sent, Res(0, "", "") before the answer
\*   target, has   taskId and hasIncompleteDeps of the call of
\*                 updateTaskStatusBasedOnDependencies in progress
\*   rest          the rows of dependents not yet visited (markAsCompleted)
\*   out           result.rows[0] of the write of the model method
\*   faulted       a statement of this request has thrown
\*   visited, path the two Sets of the checkCircularDependency walk in progress
\*   stack         its calls that await a recursive call: toTaskId of the call
\*                 and the rows its for loop has not reached yet
\*   next          toTaskId of the call that is about to run its SELECT
\*   hasCircular   the result of the walk, once answered
\*   data          req.body of PUT /tasks/:id

Mutations == {"addDependency", "removeDependency", "markAsCompleted", "deleteTask"}

\* first statement of each handler
FirstPc(op) ==
  CASE op = "addDependency" -> "findById"
    [] op = "removeDependency" -> "ownerCheck"
    [] op = "markAsCompleted" -> "canCompleteTask"
    [] op = "deleteTask" -> "delete"
    [] op = "validateDependencies" -> "dependencies"
    [] op = "createSubtask" -> "findParent"
    [] op = "updateTask" -> "findTask"

\* the request as it enters its handler
Request(db, op, u, t, d) ==
  [op |-> op, u |-> u, t |-> t, d |-> d, pc |-> FirstPc(op), start |-> db,
   res |-> Res(0, "", ""), target |-> NULL, has |-> FALSE, rest |-> <<>>,
   out |-> "", faulted |-> FALSE, visited |-> {}, path |-> {}, stack |-> <<>>,
   next |-> IF op = "validateDependencies" THEN d ELSE Str(NULL),
   hasCircular |-> FALSE, data |-> <<>>]

\* the requests owner u can send to the routes of ops
Requests(db, u, ops) ==
  {Request(db, "addDependency", u, t, d) :
     t \in IF "addDependency" \in ops THEN TaskIds ELSE {}, d \in BodyIds}
  \cup {Request(db, "removeDependency", u, t, d) :
     t \in IF "removeDependency" \in ops THEN TaskIds ELSE {}, d \in ParamIds}
  \cup {Request(db, op, u, t, Str(NULL)) :
     op \in ops \cap {"markAsCompleted", "deleteTask"}, t \in TaskIds}
  \cup {Request(db, "validateDependencies", u, t, d) :
     t \in IF "validateDependencies" \in ops THEN TaskIds ELSE {}, d \in BodyIds}
  \cup {Request(db, op, u, t, Str(NULL)) : op \in ops \cap {"createSubtask"}, t \in TaskIds}
  \cup {[Request(db, "updateTask", u, t, Str(NULL)) EXCEPT !.data = data] :
     t \in IF "updateTask" \in ops THEN TaskIds ELSE {}, data \in UpdateDatas}

\* res.json(...) / res.status(...).json(...): the handler has answered
Done(r, res) ==
  [r EXCEPT !.pc = "done", !.res = res, !.target = NULL, !.has = FALSE,
            !.rest = <<>>, !.out = "", !.visited = {}, !.path = {},
            !.stack = <<>>, !.next = Str(NULL)]

\* call of updateTaskStatusBasedOnDependencies(taskId)
StartRecompute(r, taskId) ==
  [r EXCEPT !.pc = "incompleteDeps", !.target = taskId]

\* the answer of the handler whose for loop over the dependents has ended
Finished(r) ==
  IF r.op = "updateTask"
    THEN Res(200, "", "Task updated successfully")
  ELSE IF r.out = "none"
    THEN Res(404, "Task not found",
           "The specified task does not exist or you do not have access to it")
  ELSE Res(200, "", "Task marked as completed successfully")

\* a for loop that never leaves its first row
NextDependent_SameRow(r) ==
  IF r.rest = <<>>
    THEN Done(r, Finished(r))
  ELSE StartRecompute(r, Head(r.rest))

\* markAsCompleted, updateTask: the for loop over the dependents, then the answer
NextDependent(r) ==
  IF r.rest = <<>>
    THEN Done(r, Finished(r))
  ELSE [StartRecompute(r, Head(r.rest)) EXCEPT !.rest = Tail(r.rest)]

\* return of updateTaskStatusBasedOnDependencies to its caller
EndRecompute(r) ==
  IF r.op = "addDependency"
    THEN Done(r, Res(201, "", "Dependency added successfully"))
  ELSE IF r.op = "removeDependency"
    THEN Done(r, IF r.out = "row"
                   THEN Res(200, "", "Dependency removed successfully")
                   ELSE Res(404, "Dependency not found",
                          "The specified dependency does not exist"))
  ELSE NextDependent(r)

\* the catch block of each handler, for an error it does not name
Failed(op) ==
  CASE op = "addDependency" ->
         Res(500, "Failed to add dependency", "An error occurred while adding the dependency")
    [] op = "removeDependency" ->
         Res(500, "Failed to remove dependency",
           "An error occurred while removing the dependency")
    [] op = "markAsCompleted" ->
         Res(500, "Failed to mark task as completed",
           "An error occurred while updating the task status")
    [] op = "deleteTask" ->
         Res(500, "Failed to delete task", "An error occurred while deleting the task")
    [] op = "validateDependencies" ->
         Res(500, "Failed to validate dependencies",
           "An error occurred while validating dependencies")
    [] op = "createSubtask" ->
         Res(500, "Failed to create subtask", "An error occurred while creating the subtask")
    [] op = "updateTask" ->
         Res(500, "Failed to update task", "An error occurred while updating the task")

\* TaskController.validateDependencies: the answer once the walk has returned
Validated(r, hasCircular) ==
  [Done(r, Res(200, "", "Dependency validation completed"))
     EXCEPT !.hasCircular = hasCircular]

\* checkCircularDependency between one SELECT and the next: the for loop of the
\* innermost call goes on; a row found in path returns true through every
\* caller, a row found in visited is skipped, any other row is the toTaskId of
\* the next call, which runs its SELECT; a call whose rows are exhausted leaves
\* path and returns false to its caller
RECURSIVE Resume(_)
Resume(r) ==
  IF r.stack = <<>>
    THEN Validated(r, FALSE)
  ELSE LET call == Head(r.stack)
       IN IF call.rows = <<>>
            THEN Resume([r EXCEPT !.path = r.path \ {call.toTaskId},
                                  !.stack = Tail(r.stack)])
          ELSE LET dep == Head(call.rows)
                   looped == [r EXCEPT !.stack[1].rows = Tail(call.rows)]
               IN IF dep \in r.path THEN Validated(r, TRUE)
                  ELSE IF dep \in r.visited THEN Resume(looped)
                  ELSE [looped EXCEPT !.next = dep]

\* one statement of request r against db: the database and the request after it
step(db, r) ==
  CASE r.pc = "findById" ->
         \* TaskController.addDependency: Task.findById(taskId, userId)
         IF ~findById(db, r.t, r.u)
           THEN Reply(db, Done(r, Res(404, "Task not found",
                  "The specified task does not exist or you do not have access to it")))
         ELSE Reply(db, [r EXCEPT !.pc = "taskCheck"])
    [] r.pc = "taskCheck" ->
         \* Task.addDependency: SELECT id FROM tasks WHERE id IN ($1, $2) AND user_id
         IF Cardinality({i \in {r.t, ToInt(r.d)} : findById(db, i, r.u)}) # 2
           THEN Reply(db, Done(r, Res(404, "Task not found",
                  "One or both tasks not found or not owned by user")))
         ELSE Reply(db, [r EXCEPT !.pc = "checkCircularDependency"])
    [] r.pc = "checkCircularDependency" ->
         IF checkCircularDependency(db, Str(r.t), r.d, {}, {}).result
           THEN Reply(db, Done(r, Res(400, "Circular dependency detected",
                  "Adding this dependency would create a circular dependency chain")))
         ELSE Reply(db, [r EXCEPT !.pc = "insert"])
    [] r.pc = "insert" ->
         \* INSERT INTO task_dependencies: foreign keys, then UNIQUE
         IF r.t \notin DOMAIN db.tasks \/ ToInt(r.d) \notin DOMAIN db.tasks
           THEN Reply(db, Done(r, Failed(r.op)))
         ELSE IF <<r.t, ToInt(r.d)>> \in db.deps
           THEN Reply(db, Done(r, Res(409, "Dependency already exists",
                  "This dependency relationship already exists")))
         ELSE Reply([db EXCEPT !.deps = db.deps \cup {<<r.t, ToInt(r.d)>>}],
                    StartRecompute(r, r.t))
    [] r.pc = "ownerCheck" ->
         \* Task.removeDependency: SELECT id FROM tasks WHERE id AND user_id
         IF ~findById(db, r.t, r.u)
           THEN Reply(db, Done(r, Failed(r.op)))
         ELSE Reply(db, [r EXCEPT !.pc = "deleteDependency"])
    [] r.pc = "deleteDependency" ->
         \* DELETE FROM task_dependencies ... RETURNING *
         Reply([db EXCEPT !.deps = db.deps \ {<<r.t, ToInt(r.d)>>}],
               StartRecompute(
                 [r EXCEPT !.out = IF <<r.t, ToInt(r.d)>> \in db.deps THEN "row" ELSE "none"],
                 r.t))
    [] r.pc = "canCompleteTask" ->
         IF ~canCompleteTask(db, r.t)
           THEN Reply(db, Done(r, Res(400, "Cannot complete task",
                  "All subtasks must be completed before completing the parent task")))
         ELSE Reply(db, [r EXCEPT !.pc = IF r.op = "updateTask" THEN "updateData"
                                         ELSE "update"])
    [] r.pc = "update" ->
         \* Task.update(taskId, userId, { status: 'Completed' })
         LET result == update(db, r.t, r.u, [c \in {"status"} |-> "Completed"])
         IN Reply(result.db, [r EXCEPT !.pc = "dependents", !.out = result.out])
    [] r.pc = "dependents" ->
         \* SELECT task_id FROM task_dependencies WHERE depends_on_task_id = $1
         Reply(db, NextDependent(
                     [r EXCEPT !.rest = SortedSeq({e[1] : e \in {x \in db.deps : x[2] = r.t}})]))
    [] r.pc = "incompleteDeps" ->
         \* SELECT COUNT(*) ... WHERE td.task_id = $1 AND t.status != 'Completed'
         Reply(db, [r EXCEPT !.pc = "currentTask",
                             !.has = \E e \in db.deps :
                                       e[1] = r.target /\ db.tasks[e[2]].status # "Completed"])
    [] r.pc = "currentTask" ->
         \* SELECT status FROM tasks WHERE id = $1, and the branch it selects
         IF r.target \notin DOMAIN db.tasks
           THEN Reply(db, EndRecompute(r))
         ELSE LET currentStatus == db.tasks[r.target].status
              IN IF r.has /\ currentStatus # "Blocked" /\ currentStatus # "Completed"
                   THEN Reply(db, [r EXCEPT !.pc = "setBlocked"])
                 ELSE IF ~r.has /\ currentStatus = "Blocked"
                   THEN Reply(db, [r EXCEPT !.pc = "setToDo"])
                 ELSE Reply(db, EndRecompute(r))
    [] r.pc = "setBlocked" ->
         \* UPDATE tasks SET status = 'Blocked' WHERE id = $1
         Reply(IF r.target \in DOMAIN db.tasks
                 THEN [db EXCEPT !.tasks[r.target].status = "Blocked"]
                 ELSE db,
               EndRecompute(r))
    [] r.pc = "setToDo" ->
         \* UPDATE tasks SET status = 'To Do' WHERE id = $1
         Reply(IF r.target \in DOMAIN db.tasks
                 THEN [db EXCEPT !.tasks[r.target].status = "To Do"]
                 ELSE db,
               EndRecompute(r))
    [] r.pc = "dependencies" ->
         \* checkCircularDependency(fromTaskId, r.next): visited.add, path.add,
         \* SELECT depends_on_task_id FROM task_dependencies WHERE task_id = $1
         LET rows == SortedSeq({e[2] : e \in {x \in db.deps : x[1] = ToInt(r.next)}})
             call == [toTaskId |-> r.next,
                      rows |-> [i \in 1..Len(rows) |-> Num(rows[i])]]
         IN Reply(db, Resume([r EXCEPT !.visited = r.visited \cup {r.next},
                                       !.path = r.path \cup {r.next},
                                       !.stack = <<call>> \o r.stack]))
    [] r.pc = "findParent" ->
         \* TaskController.createSubtask: Task.findById(parentTaskId, userId)
         IF ~findById(db, r.t, r.u)
           THEN Reply(db, Done(r, Res(404, "Parent task not found",
                  "The specified parent task does not exist or you do not have access to it")))
         ELSE IF db.tasks[r.t].parent_task_id # NULL
           THEN Reply(db, Done(r, Res(400, "Invalid parent task",
                  "Cannot create subtask of a subtask. Only one level of nesting is allowed.")))
         ELSE Reply(db, [r EXCEPT !.pc = "create"])
    [] r.pc = "create" ->
         \* Task.create: INSERT INTO tasks, parent_task_id a foreign key
         IF r.t \notin DOMAIN db.tasks
           THEN Reply(db, Done(r, Failed(r.op)))
         ELSE Reply(create(db, r.u, r.t, "To Do"),
                    Done(r, Res(201, "", "Subtask created successfully")))
    [] r.pc = "findTask" ->
         \* TaskController.updateTask: Task.findById(taskId, userId)
         IF ~findById(db, r.t, r.u)
           THEN Reply(db, Done(r, Res(404, "Task not found",
                  "The requested task does not exist or you do not have access to it")))
         ELSE IF "status" \in DOMAIN r.data /\ r.data["status"] = "Completed"
           THEN Reply(db, [r EXCEPT !.pc = "canCompleteTask"])
         ELSE Reply(db, [r EXCEPT !.pc = "updateData"])
    [] r.pc = "updateData" ->
         \* Task.update(taskId, userId, updateData)
         LET updatedTask == update(db, r.t, r.u, r.data)
         IN IF updatedTask.out = "throw"
              THEN Reply(db, Done(r, Failed(r.op)))
            ELSE IF updatedTask.out = "none"
              THEN Reply(db, Done(r, Res(404, "Task not found",
                     "Task not found or no changes made")))
            ELSE IF "status" \in DOMAIN r.data /\ r.data["status"] = "Completed"
              THEN Reply(updatedTask.db, [r EXCEPT !.pc = "getDependents"])
            ELSE Reply(updatedTask.db, Done(r, Finished(r)))
    [] r.pc = "getDependents" ->
         \* Task.getDependents(taskId, userId)
         Reply(db, NextDependent(
                     [r EXCEPT !.rest = SortedSeq(getDependents(db, r.t, r.u))]))
    [] r.pc = "delete" ->
         \* TaskController.deleteTask: Task.delete(taskId, userId)
         LET deletedTask == delete(db, r.t, r.u)
         IN Reply(deletedTask.db,
                  Done(r, IF deletedTask.out = "none"
                            THEN Res(404, "Task not found",
                                   "The requested task does not exist or you do not have access to it")
                            ELSE Res(200, "", "Task deleted successfully")))

\* no request is in flight
Quiet == inflight = <<>>

\* n requests of one owner reach the server together (no more creations than
\* the sequence has ids left within the bound)
Issue(n, ops) ==
  /\ Quiet
  /\ \E u \in Users :
       \E rs \in [1..n -> Requests(DB, u, ops)] :
         /\ seq + Cardinality({i \in 1..n : rs[i].op = "createSubtask"}) <= MaxTasks + 1
         /\ inflight' = rs
  /\ UNCHANGED <<tasks, deps, seq>>

\* the event loop resumes one request in flight for one statement
Step ==
  \E i \in DOMAIN inflight :
    /\ inflight[i].pc # "done"
    /\ LET r == step(DB, inflight[i])
       IN /\ tasks' = r.db.tasks
          /\ deps' = r.db.deps
          /\ seq' = r.db.seq
          /\ inflight' = [inflight EXCEPT ![i] = r.res]

\* the statement a request is about to run throws instead (the connection is
\* lost, the pool times out): nothing is written and the catch block answers
Fault ==
  \E i \in DOMAIN inflight :
    /\ inflight[i].pc # "done"
    /\ inflight' = [inflight EXCEPT
                      ![i] = [Done(inflight[i], Failed(inflight[i].op))
                                EXCEPT !.faulted = TRUE]]
    /\ UNCHANGED <<tasks, deps, seq>>

\* One mutation at a time, any statement of which may throw, on a database
\* built by CreateTask and AddDependency
NextFaults ==
  \/ Quiet /\ CreateTask({"To Do"})
  \/ Quiet /\ AddDependency
  \/ Issue(1, Mutations)
  \/ Step
  \/ Fault

SpecFaults == Init /\ [][NextFaults]_vars

\* Two mutations of one owner in flight at once, their statements in any order
NextInterleaved ==
  \/ Quiet /\ CreateTask({"To Do"})
  \/ Issue(2, Mutations)
  \/ Step

SpecInterleaved == Init /\ [][NextInterleaved]_vars

\* every task of the next state belongs to the first owner, and every request
\* in flight in the next state is one of theirs
OneOwner ==
  /\ \A x \in DOMAIN tasks' : tasks'[x].user_id = 1
  /\ \A i \in DOMAIN inflight' : inflight'[i].u = 1

\* One request at a time, a completion or a cycle check whose walk runs one
\* SELECT per step, sent by the owner of a database built by CreateTask and
\* AddDependency; a request in flight is resumed as long as it has a
\* statement to run
NextTermination ==
  \/ Quiet /\ CreateTask({"To Do"}) /\ OneOwner
  \/ Quiet /\ AddDependency
  \/ Issue(1, {"markAsCompleted", "validateDependencies"}) /\ OneOwner
  \/ Step

SpecTermination == Init /\ [][NextTermination]_vars /\ WF_vars(Step)

\* Two requests of one owner in flight at once, their statements in any order:
\* completions, creations of subtasks and updates, on a database of the first
\* owner built by POST /tasks (a subtask may be created Completed)
NextSubtasks ==
  \/ Quiet /\ CreateTask({"To Do", "Completed"}) /\ OneOwner
  \/ Issue(2, {"markAsCompleted", "createSubtask", "updateTask"}) /\ OneOwner
  \/ Step

SpecSubtasks == Init /\ [][NextSubtasks]_vars

\* ---- notions the properties are stated with -------------------------------

\* targets of the edges of E that leave a task of S
Succ(E, S) == {e[2] : e \in {x \in E : x[1] \in S}}

RECURSIVE Closure(_, _)
Closure(E, S) ==
  LET n == S \cup Succ(E, S) IN IF n = S THEN S ELSE Closure(E, n)

\* tasks reached from a by a path of one or more edges of E
ReachableFrom(E, a) == Closure(E, Succ(E, {a}))

Acyclic(E) == \A e \in E : e[1] \notin ReachableFrom(E, e[1])

HasIncompleteDependency(db, t) ==
  \E e \in db.deps : e[1] = t /\ db.tasks[e[2]].status # "Completed"

HasIncompleteSubtask(db, t) ==
  \E s \in DOMAIN db.tasks :
    db.tasks[s].parent_task_id = t /\ db.tasks[s].status # "Completed"

\* ---- C1 ------------------------------------------------------------------
\* C1: the dependency graph is acyclic in every reachable state, and
\* AddDependency(task, dependsOnTask), issued by the owner of both when task is
\* reachable from dependsOnTask, answers "Circular dependency detected" and
\* leaves the edge set unchanged.
C1_AcyclicAndCycleRejected ==
  /\ Acyclic(deps)
  /\ \A u \in Users, t \in ParamIds, d \in BodyIds :
       ( /\ findById(DB, ToInt(t), u)
         /\ findById(DB, ToInt(d), u)
         /\ ToInt(t) \in ReachableFrom(deps, ToInt(d)) )
       => LET r == addDependencyHandler(DB, u, t, d)
          IN r.res.error = "Circular dependency detected" /\ r.db.deps = deps

\* ---- C2 ------------------------------------------------------------------
\* C2: for every pair of existing tasks the cycle check answers true exactly
\* when task = dependsOnTask or a path of edges leads from dependsOnTask to task.
C2_CycleCheckIffPath ==
  \A t \in BodyIds, d \in BodyIds :
    (ToInt(t) \in DOMAIN tasks /\ ToInt(d) \in DOMAIN tasks)
    => ( validateDependenciesHandler(DB, t, d).res.hasCircularDependency
         <=> (ToInt(t) = ToInt(d) \/ ToInt(t) \in ReachableFrom(deps, ToInt(d))) )

\* ---- C3 ------------------------------------------------------------------
\* C3: in every state a mutation leaves, a task that is not Completed is
\* Blocked exactly when one of its dependencies is not Completed.
C3_BlockedIffIncompleteDependency ==
  \A t \in DOMAIN tasks :
    tasks[t].status # "Completed"
    => (tasks[t].status = "Blocked" <=> HasIncompleteDependency(DB, t))

\* ---- C4 ------------------------------------------------------------------
\* C4: MarkCompleted(t) on a task with a subtask that is not Completed answers
\* 400 "Cannot complete task" and leaves every row of the database as it was.
C4_CompletionGated ==
  \A u \in Users, t \in TaskIds :
    HasIncompleteSubtask(DB, t)
    => LET r == markAsCompletedHandler(DB, u, t)
       IN r.res.status = 400 /\ r.res.error = "Cannot complete task" /\ r.db = DB

\* a task of u with an open subtask and a Blocked dependent, where the call is
\* answered 400
C4_Witness ==
  \E u \in Users, t \in DOMAIN tasks :
    /\ tasks[t].user_id = u
    /\ tasks[t].status # "Completed"
    /\ HasIncompleteSubtask(DB, t)
    /\ \E e \in deps : e[2] = t /\ tasks[e[1]].status = "Blocked"
    /\ markAsCompletedHandler(DB, u, t).res.status = 400

\* ---- C5 ------------------------------------------------------------------
\* C5: with A, B, C of one owner, A depending on B, B depending on C, and A and
\* B Blocked, MarkCompleted(C) then MarkCompleted(B) are accepted unless a
\* subtask is open, and once both are accepted A is To Do and B and C are
\* Completed, though neither call names A.
C5_CascadeUnblocks ==
  \A u \in Users, A \in DOMAIN tasks, B \in DOMAIN tasks, C \in DOMAIN tasks :
    ( /\ A # B /\ B # C /\ A # C
      /\ tasks[A].user_id = u /\ tasks[B].user_id = u /\ tasks[C].user_id = u
      /\ <<A, B>> \in deps /\ <<B, C>> \in deps
      /\ tasks[A].status = "Blocked" /\ tasks[B].status = "Blocked" )
    => LET r1 == markAsCompletedHandler(DB, u, C)
           r2 == markAsCompletedHandler(r1.db, u, B)
       IN /\ (~HasIncompleteSubtask(DB, C) /\ ~HasIncompleteSubtask(r1.db, B))
               => (r1.res.status = 200 /\ r2.res.status = 200)
          /\ (r1.res.status = 200 /\ r2.res.status = 200)
               => /\ r2.db.tasks[A].status = "To Do"
                  /\ r2.db.tasks[B].status = "Completed"
                  /\ r2.db.tasks[C].status = "Completed"

\* the chain A -> B -> C with A and B Blocked, where both calls are accepted
\* and leave A in To Do
C5_Witness ==
  \E u \in Users, A \in DOMAIN tasks, B \in DOMAIN tasks, C \in DOMAIN tasks :
    /\ A # B /\ B # C /\ A # C
    /\ tasks[A].user_id = u /\ tasks[B].user_id = u /\ tasks[C].user_id = u
    /\ deps = {<<A, B>>, <<B, C>>}
    /\ tasks[A].status = "Blocked" /\ tasks[B].status = "Blocked"
    /\ tasks[C].status = "To Do"
    /\ LET r1 == markAsCompletedHandler(DB, u, C)
           r2 == markAsCompletedHandler(r1.db, u, B)
       IN /\ r1.res.status = 200 /\ r2.res.status = 200
          /\ r1.db.tasks[A].status = "Blocked"
          /\ r2.db.tasks[A].status = "To Do"

\* ---- C6 ------------------------------------------------------------------
\* C6: when DeleteTask(t) is accepted, every remaining task that had an edge to
\* t, was Blocked and has no other dependency that is not Completed is To Do.
C6_DeleteReevaluatesPredecessors ==
  \A u \in Users, t \in TaskIds :
    LET r == deleteTask(DB, u, t)
    IN r.res.status = 200
       => \A p \in DOMAIN r.db.tasks :
            ( /\ <<p, t>> \in deps
              /\ tasks[p].status = "Blocked"
              /\ ~HasIncompleteDependency(r.db, p) )
            => r.db.tasks[p].status = "To Do"

\* ---- C7 ------------------------------------------------------------------
\* the parent links as edges, and the tasks deleted with t: t and the tasks
\* below it
ParentEdges(db) ==
  {<<x, db.tasks[x].parent_task_id>> :
     x \in {y \in DOMAIN db.tasks : db.tasks[y].parent_task_id # NULL}}

DeletedWith(db, t) ==
  {t} \cup {x \in DOMAIN db.tasks : t \in ReachableFrom(ParentEdges(db), x)}

\* C7: every edge endpoint and every non-null parent is an existing task; and
\* DeleteTask(t) by the owner of t is accepted, removes t, its subtasks and
\* every edge with a removed task on either side, and keeps every other task
\* and edge as it was.
C7_DeleteCascades ==
  /\ \A e \in deps : e[1] \in DOMAIN tasks /\ e[2] \in DOMAIN tasks
  /\ \A x \in DOMAIN tasks :
       tasks[x].parent_task_id # NULL => tasks[x].parent_task_id \in DOMAIN tasks
  /\ \A u \in Users, t \in TaskIds :
       LET r == deleteTask(DB, u, t)
           gone == DeletedWith(DB, t)
       IN /\ findById(DB, t, u) <=> r.res.status = 200
          /\ r.res.status # 200 => r.db = DB
          /\ r.res.status = 200
             => /\ DOMAIN r.db.tasks = DOMAIN tasks \ gone
                /\ \A x \in DOMAIN r.db.tasks : r.db.tasks[x] = tasks[x]
                /\ r.db.deps = {e \in deps : e[1] \notin gone /\ e[2] \notin gone}
                /\ r.db.seq = seq

\* a task with a subtask, an edge at the task and an edge at the subtask, and a
\* third task that stays when the first is deleted
C7_Witness ==
  \E u \in Users, t \in DOMAIN tasks, s \in DOMAIN tasks, o \in DOMAIN tasks :
    /\ t # s /\ t # o /\ s # o
    /\ tasks[s].parent_task_id = t
    /\ \E e \in deps : t \in {e[1], e[2]}
    /\ \E e \in deps : s \in {e[1], e[2]} /\ t \notin {e[1], e[2]}
    /\ LET r == deleteTask(DB, u, t)
       IN r.res.status = 200 /\ DOMAIN r.db.tasks = {o} /\ r.db.deps = {}

\* ---- C8 ------------------------------------------------------------------
\* C8: no task with a parent is the parent of a task; CreateTask and
\* createSubtask under a parent that has a parent answer 400 "Invalid parent
\* task" and create nothing.
C8_NestingDepthAtMostOne ==
  /\ \A x \in DOMAIN tasks :
       tasks[x].parent_task_id # NULL
       => \A c \in DOMAIN tasks : tasks[c].parent_task_id # x
  /\ \A u \in Users, p \in TaskIds :
       (findById(DB, p, u) /\ tasks[p].parent_task_id # NULL)
       => /\ \A s \in Status :
               LET r == createTask(DB, u, p, s)
               IN r.res.status = 400 /\ r.res.error = "Invalid parent task" /\ r.db = DB
          /\ LET r == createSubtask(DB, u, p)
             IN r.res.status = 400 /\ r.res.error = "Invalid parent task" /\ r.db = DB

\* ---- C9 ------------------------------------------------------------------
\* C9: no edge joins a task to itself, and AddDependency(t, t) by the owner of
\* t is rejected without a write, with an error that is neither the not-found
\* error nor the cycle error.
C9_SelfDependencyError ==
  /\ \A e \in deps : e[1] # e[2]
  /\ \A u \in Users, t \in ParamIds, d \in BodyIds :
       (ToInt(t) = ToInt(d) /\ findById(DB, ToInt(t), u))
       => LET r == addDependencyHandler(DB, u, t, d)
          IN /\ r.db = DB
             /\ r.res.status \in 400..499
             /\ r.res.error \notin {"Task not found", "Circular dependency detected"}

\* ---- C10 -----------------------------------------------------------------
\* C10: with tasks 1, 2, 3 of one owner and exactly the edges 1 -> 2 and
\* 2 -> 3, ValidateDependency(3, 1) reports a cycle, AddDependency(3, 1) answers
\* "Circular dependency detected" and adds nothing, and after
\* RemoveDependency(1, 2) AddDependency(3, 1) is accepted and the graph is
\* acyclic.
C10_Scenario ==
  \A u \in Users :
    ( /\ \A i \in 1..3 : findById(DB, i, u)
      /\ deps = {<<1, 2>>, <<2, 3>>} )
    => /\ validateDependenciesHandler(DB, Num(3), Num(1)).res.hasCircularDependency
       /\ LET r == addDependencyHandler(DB, u, Str(3), Num(1))
          IN r.res.error = "Circular dependency detected" /\ r.db.deps = deps
       /\ LET r1 == removeDependencyHandler(DB, u, 1, 2)
              r2 == addDependencyHandler(r1.db, u, Str(3), Num(1))
          IN /\ r1.res.status = 200
             /\ r2.res.status = 201
             /\ r2.db.deps = {<<2, 3>>, <<3, 1>>}
             /\ Acyclic(r2.db.deps)

\* ---- C11 -----------------------------------------------------------------
\* C11: recompute is idempotent: a second updateTaskStatusBasedOnDependencies
\* on the same task, with nothing written in between, leaves the database the
\* first call left; the task's status after the second call is its status after
\* the first, and no other row differs.
C11_RecomputeIdempotent ==
  \A t \in TaskIds :
    LET once == updateTaskStatusBasedOnDependencies(DB, t)
        twice == updateTaskStatusBasedOnDependencies(once, t)
    IN twice = once

\* a task the first call blocks and a task the first call unblocks, each left
\* alone by the second call
C11_Witness ==
  \E a \in DOMAIN tasks, b \in DOMAIN tasks :
    LET a1 == updateTaskStatusBasedOnDependencies(DB, a)
        b1 == updateTaskStatusBasedOnDependencies(DB, b)
    IN /\ tasks[a].status \in {"To Do", "In Progress"}
       /\ a1.tasks[a].status = "Blocked"
       /\ updateTaskStatusBasedOnDependencies(a1, a) = a1
       /\ tasks[b].status = "Blocked"
       /\ b1.tasks[b].status = "To Do"
       /\ updateTaskStatusBasedOnDependencies(b1, b) = b1

\* ---- C12 -----------------------------------------------------------------
\* C12: ownership is a hard partition: in every reachable state both endpoints
\* of every edge have one owner and every subtask has the owner of its parent;
\* and AddDependency or CreateTask naming an existing task of another owner is
\* rejected and writes nothing.
C12_OwnershipPartition ==
  /\ \A e \in deps : tasks[e[1]].user_id = tasks[e[2]].user_id
  /\ \A x \in DOMAIN tasks :
       tasks[x].parent_task_id # NULL
       => tasks[tasks[x].parent_task_id].user_id = tasks[x].user_id
  /\ \A u \in Users, t \in ParamIds, d \in BodyIds :
       (\E i \in {ToInt(t), ToInt(d)} : i \in DOMAIN tasks /\ tasks[i].user_id # u)
       => LET r == addDependencyHandler(DB, u, t, d)
          IN r.res.status \in 400..499 /\ r.db = DB
  /\ \A u \in Users, p \in DOMAIN tasks, s \in Status :
       tasks[p].user_id # u
       => LET r == createTask(DB, u, p, s)
          IN r.res.status \in 400..499 /\ r.db = DB

\* ---- C13 -----------------------------------------------------------------
\* every task of an owner other than u is, in db, the row it is now and has
\* the edges it has now
OthersUntouched(u, db) ==
  \A x \in DOMAIN tasks :
    tasks[x].user_id # u
    => /\ x \in DOMAIN db.tasks
       /\ db.tasks[x] = tasks[x]
       /\ {e \in db.deps : x \in {e[1], e[2]}} = {e \in deps : x \in {e[1], e[2]}}

\* C13: whatever ids it names, an operation issued by owner u (AddDependency,
\* RemoveDependency, MarkCompleted, CreateTask, DeleteTask, ValidateDependency
\* or a status update) changes neither the status, nor the parent, nor the
\* edges of a task of another owner.
C13_NoCrossOwnerWrite ==
  \A u \in Users :
    /\ \A t \in ParamIds, d \in BodyIds :
         OthersUntouched(u, addDependencyHandler(DB, u, t, d).db)
    /\ \A t \in TaskIds, d \in TaskIds :
         OthersUntouched(u, removeDependencyHandler(DB, u, t, d).db)
    /\ \A t \in TaskIds : OthersUntouched(u, markAsCompletedHandler(DB, u, t).db)
    /\ \A p \in TaskIds \cup {NULL}, s \in Status :
         OthersUntouched(u, createTask(DB, u, p, s).db)
    /\ \A t \in TaskIds : OthersUntouched(u, deleteTask(DB, u, t).db)
    /\ \A t \in BodyIds, d \in BodyIds :
         OthersUntouched(u, validateDependenciesHandler(DB, t, d).db)
    /\ \A t \in TaskIds, s \in Status :
         OthersUntouched(u, updateTask(DB, u, t, [c \in {"status"} |-> s]).db)

\* ---- C14 -----------------------------------------------------------------
\* C14: in every reachable state AddDependency for an ordered pair that already
\* has an edge, issued by the owner of both tasks, is rejected with 409
\* "Dependency already exists"; the edge set and every task's status are as
\* they were.
C14_DuplicateRejected ==
  \A u \in Users, t \in ParamIds, d \in BodyIds :
    ( /\ <<ToInt(t), ToInt(d)>> \in deps
      /\ findById(DB, ToInt(t), u)
      /\ findById(DB, ToInt(d), u) )
    => LET r == addDependencyHandler(DB, u, t, d)
       IN /\ r.res.status = 409
          /\ r.res.error = "Dependency already exists"
          /\ r.db.deps = deps
          /\ \A x \in DOMAIN tasks : r.db.tasks[x].status = tasks[x].status

\* ---- C16 -----------------------------------------------------------------
\* C16: the cycle check called with an id that is not the id of a task answers
\* with a not-found error, never with "no cycle" (hasCircularDependency false).
C16_UnknownTaskNotFound ==
  \A t \in BodyIds, d \in BodyIds :
    (ToInt(t) \notin DOMAIN tasks \/ ToInt(d) \notin DOMAIN tasks)
    => LET r == validateDependenciesHandler(DB, t, d)
       IN /\ r.res.status = 404
          /\ r.res.error # ""
          /\ ~(r.res.status = 200 /\ ~r.res.hasCircularDependency)

\* ---- C17 -----------------------------------------------------------------
\* C17: ValidateDependency is read-only: whatever ids it is given and whatever
\* it answers, the database it leaves has every task's status and parent and
\* the edge set exactly as they were.
C17_ValidateReadOnly ==
  \A t \in BodyIds, d \in BodyIds :
    LET r == validateDependenciesHandler(DB, t, d)
    IN /\ r.db.deps = deps
       /\ DOMAIN r.db.tasks = DOMAIN tasks
       /\ \A x \in DOMAIN tasks :
            /\ r.db.tasks[x].status = tasks[x].status
            /\ r.db.tasks[x].parent_task_id = tasks[x].parent_task_id

\* a graph on which the check walks an edge and answers "cycle" for one pair
\* and "no cycle" for another, asked about a task whose status a recompute
\* would change
C17_Witness ==
  \E t \in BodyIds, d \in BodyIds, e \in BodyIds :
    /\ ToInt(t) \in DOMAIN tasks
    /\ updateTaskStatusBasedOnDependencies(DB, ToInt(t)) # DB
    /\ \E x \in deps : x[1] = ToInt(d)
    /\ validateDependenciesHandler(DB, t, d).res.hasCircularDependency
    /\ validateDependenciesHandler(DB, t, e).res.canAddDependency
    /\ validateDependenciesHandler(DB, t, d).db = DB

\* ---- C19 -----------------------------------------------------------------
\* C19: updateTaskStatusBasedOnDependencies(t) changes nothing but the status
\* of t, and changes it only from To Do or In Progress to Blocked when a
\* dependency of t is not Completed, or from Blocked to To Do when none is: a
\* Completed task stays Completed and neither In Progress nor Completed is
\* ever written.
C19_RecomputeTransitions ==
  \A t \in TaskIds :
    LET r == updateTaskStatusBasedOnDependencies(DB, t)
    IN /\ r.deps = deps
       /\ r.seq = seq
       /\ DOMAIN r.tasks = DOMAIN tasks
       /\ \A x \in DOMAIN tasks :
            /\ r.tasks[x].user_id = tasks[x].user_id
            /\ r.tasks[x].parent_task_id = tasks[x].parent_task_id
            /\ x # t => r.tasks[x].status = tasks[x].status
       /\ (t \in DOMAIN tasks /\ r.tasks[t].status # tasks[t].status)
            => \/ /\ tasks[t].status \in {"To Do", "In Progress"}
                  /\ HasIncompleteDependency(DB, t)
                  /\ r.tasks[t].status = "Blocked"
               \/ /\ tasks[t].status = "Blocked"
                  /\ ~HasIncompleteDependency(DB, t)
                  /\ r.tasks[t].status = "To Do"

\* one state with the three cases: an In Progress task the call blocks, a
\* Blocked task it unblocks, and a Completed task with an open dependency it
\* leaves Completed
C19_Witness ==
  \E a \in DOMAIN tasks, b \in DOMAIN tasks, c \in DOMAIN tasks :
    /\ tasks[a].status = "In Progress"
    /\ updateTaskStatusBasedOnDependencies(DB, a).tasks[a].status = "Blocked"
    /\ tasks[b].status = "Blocked"
    /\ updateTaskStatusBasedOnDependencies(DB, b).tasks[b].status = "To Do"
    /\ tasks[c].status = "Completed"
    /\ HasIncompleteDependency(DB, c)
    /\ updateTaskStatusBasedOnDependencies(DB, c) = DB

\* ---- C20 -----------------------------------------------------------------
\* every task that is Completed in db and was not Completed before (or did
\* not exist) had no subtask that was not Completed
CompletedOnlyOverDoneSubtasks(db) ==
  \A x \in DOMAIN db.tasks :
    ( /\ db.tasks[x].status = "Completed"
      /\ (x \in DOMAIN tasks => tasks[x].status # "Completed") )
    => ~HasIncompleteSubtask(DB, x)

Handle(db, r) ==
  CASE r.op = "addDependency" -> addDependencyHandler(db, r.u, Str(r.t), r.d)
    [] r.op = "removeDependency" -> removeDependencyHandler(db, r.u, r.t, ToInt(r.d))
    [] r.op = "markAsCompleted" -> markAsCompletedHandler(db, r.u, r.t)
    [] r.op = "deleteTask" -> deleteTask(db, r.u, r.t)
    [] r.op = "validateDependencies" -> validateDependenciesHandler(db, Num(r.t), r.d)
    [] r.op = "createSubtask" -> createSubtask(db, r.u, r.t)
    [] r.op = "updateTask" -> updateTask(db, r.u, r.t, r.data)

\* C15: every mutation is all-or-nothing: when a statement of AddDependency,
\* RemoveDependency, MarkCompleted or DeleteTask throws, the request is
\* answered with an error and the database is the one the request found: no
\* edge and no status it wrote before the failure remains.
C15_AllOrNothing ==
  \A i \in DOMAIN inflight :
    (inflight[i].pc = "done" /\ inflight[i].faulted)
    => /\ inflight[i].res.status >= 400
       /\ deps = inflight[i].start.deps
       /\ DOMAIN tasks = DOMAIN inflight[i].start.tasks
       /\ \A x \in DOMAIN tasks : tasks[x].status = inflight[i].start.tasks[x].status

\* ---- C18 -----------------------------------------------------------------
\* the database and the two status codes when request a runs alone from db to
\* its answer and request b runs after it; first and second say where the
\* codes of a and b go
OneAfterTheOther(db, a, b, first, second) ==
  LET ra == Handle(db, a)
      rb == Handle(ra.db, b)
  IN [db |-> rb.db, res |-> (first :> ra.res.status) @@ (second :> rb.res.status)]

\* C18: mutations of one owner are serialized: once two mutation requests of
\* one owner that were in flight together have both been answered, the
\* database and the two status codes are those of running one request to its end
\* and then the other, in one of the two orders; in particular
\* AddDependency(a, b) and AddDependency(b, a) issued together are never both
\* accepted.
C18_Serialized ==
  (Len(inflight) = 2 /\ \A i \in 1..2 : inflight[i].pc = "done")
  => LET a == inflight[1]
         b == inflight[2]
         outcome == [db |-> DB, res |-> (1 :> a.res.status) @@ (2 :> b.res.status)]
     IN /\ \/ outcome = OneAfterTheOther(a.start, a, b, 1, 2)
           \/ outcome = OneAfterTheOther(a.start, b, a, 2, 1)
        /\ ( /\ a.op = "addDependency" /\ b.op = "addDependency"
             /\ a.t = ToInt(b.d) /\ b.t = ToInt(a.d) /\ a.t # b.t )
           => ~(a.res.status = 201 /\ b.res.status = 201)

\* ---- C21 -----------------------------------------------------------------
\* C21: after an accepted MarkCompleted(t), t is Completed; every task d with
\* an edge d -> t that is not Completed is Blocked exactly when one of its
\* dependencies is not Completed; every task that neither is t nor has an edge
\* to t has the status it had.
C21_MarkCompletedPostState ==
  \A u \in Users, t \in TaskIds :
    LET r == markAsCompletedHandler(DB, u, t)
    IN r.res.status = 200
       => /\ r.db.tasks[t].status = "Completed"
          /\ DOMAIN r.db.tasks = DOMAIN tasks
          /\ r.db.deps = deps
          /\ \A d \in DOMAIN tasks :
               IF <<d, t>> \in deps
                 THEN r.db.tasks[d].status # "Completed"
                      => (r.db.tasks[d].status = "Blocked"
                            <=> HasIncompleteDependency(r.db, d))
               ELSE d # t => r.db.tasks[d].status = tasks[d].status

\* a task with two dependents, one that the call unblocks and one that stays
\* Blocked on another dependency
C21_Witness ==
  \E u \in Users, t \in DOMAIN tasks, a \in DOMAIN tasks, b \in DOMAIN tasks :
    LET r == markAsCompletedHandler(DB, u, t)
    IN /\ a # b
       /\ <<a, t>> \in deps /\ <<b, t>> \in deps
       /\ tasks[a].status = "Blocked" /\ tasks[b].status = "Blocked"
       /\ r.res.status = 200
       /\ r.db.tasks[a].status = "To Do"
       /\ r.db.tasks[b].status = "Blocked"

\* ---- C22 -----------------------------------------------------------------
\* C22: after an accepted AddDependency(t, d) the edge t -> d exists and t has
\* been recomputed: t is Blocked if d is not Completed and t was To Do or
\* In Progress, t is Completed if it was Completed, and every other task has
\* the status it had.
C22_AddDependencyPostState ==
  \A u \in Users, t \in ParamIds, d \in BodyIds :
    LET r == addDependencyHandler(DB, u, t, d)
        ti == ToInt(t)
        di == ToInt(d)
    IN r.res.status = 201
       => /\ r.db.deps = deps \cup {<<ti, di>>}
          /\ DOMAIN r.db.tasks = DOMAIN tasks
          /\ (tasks[di].status # "Completed" /\ tasks[ti].status \in {"To Do", "In Progress"})
               => r.db.tasks[ti].status = "Blocked"
          /\ tasks[ti].status = "Completed" => r.db.tasks[ti].status = "Completed"
          /\ \A x \in DOMAIN tasks \ {ti} : r.db.tasks[x].status = tasks[x].status

\* one state with an In Progress task that an accepted edge to an open task
\* blocks and a Completed task that an accepted edge to an open task leaves
\* Completed
C22_Witness ==
  \E u \in Users, a \in DOMAIN tasks, c \in DOMAIN tasks, d \in DOMAIN tasks :
    LET ra == addDependencyHandler(DB, u, Str(a), Num(d))
        rc == addDependencyHandler(DB, u, Str(c), Num(d))
    IN /\ tasks[d].status # "Completed"
       /\ tasks[a].status = "In Progress"
       /\ ra.res.status = 201
       /\ ra.db.tasks[a].status = "Blocked"
       /\ tasks[c].status = "Completed"
       /\ rc.res.status = 201
       /\ rc.db.tasks[c].status = "Completed"

\* ---- C23 -----------------------------------------------------------------
\* C23: after RemoveDependency(t, d) has removed an existing edge, t has been
\* recomputed on the remaining edges: a t that was Blocked is To Do when no
\* remaining dependency is open and Blocked when one is, and every other task
\* has the status it had.
C23_RemoveDependencyPostState ==
  \A u \in Users, t \in TaskIds, d \in TaskIds :
    LET r == removeDependencyHandler(DB, u, t, d)
    IN (<<t, d>> \in deps /\ r.res.status = 200)
       => /\ r.db.deps = deps \ {<<t, d>>}
          /\ DOMAIN r.db.tasks = DOMAIN tasks
          /\ tasks[t].status = "Blocked"
               => r.db.tasks[t].status
                    = IF HasIncompleteDependency(r.db, t) THEN "Blocked" ELSE "To Do"
          /\ \A x \in DOMAIN tasks \ {t} : r.db.tasks[x].status = tasks[x].status

\* a Blocked task with two open dependencies: removing one leaves it Blocked,
\* removing the other as well sets it to To Do
C23_Witness ==
  \E u \in Users, t \in DOMAIN tasks, d \in DOMAIN tasks, e \in DOMAIN tasks :
    LET r1 == removeDependencyHandler(DB, u, t, d)
        r2 == removeDependencyHandler(r1.db, u, t, e)
    IN /\ d # e
       /\ {x \in deps : x[1] = t} = {<<t, d>>, <<t, e>>}
       /\ tasks[t].status = "Blocked"
       /\ tasks[d].status # "Completed" /\ tasks[e].status # "Completed"
       /\ r1.res.status = 200 /\ r1.db.tasks[t].status = "Blocked"
       /\ r2.res.status = 200 /\ r2.db.tasks[t].status = "To Do"

\* ---- C24 -----------------------------------------------------------------
\* C24: from every reachable state RemoveDependency(t, d) by the owner of t,
\* with no edge from t to d, is answered 404 and changes neither an edge nor
\* the status of a task, the status of t included.
C24_RemoveMissingRejected ==
  \A u \in Users, t \in TaskIds, d \in TaskIds :
    (<<t, d>> \notin deps /\ findById(DB, t, u))
    => LET r == removeDependencyHandler(DB, u, t, d)
       IN /\ r.res.status = 404
          /\ r.db.deps = deps
          /\ DOMAIN r.db.tasks = DOMAIN tasks
          /\ \A x \in DOMAIN tasks : r.db.tasks[x].status = tasks[x].status

\* ---- C25 -----------------------------------------------------------------
\* every request in flight has been answered
Answered == \A i \in DOMAIN inflight : inflight[i].pc = "done"

\* C25: every operation terminates on every reachable database, a graph with
\* a cycle included: a request that has started is answered after finitely
\* many statements, whether it walks the graph (checkCircularDependency) or
\* re-evaluates the dependents of a task (markAsCompleted).
C25_Terminates == (~Quiet) ~> Answered

\* a cycle check answered "cycle" on a graph that has one
C25_Witness ==
  \E i \in DOMAIN inflight :
    /\ inflight[i].op = "validateDependencies"
    /\ inflight[i].pc = "done"
    /\ inflight[i].hasCircular
    /\ ~Acyclic(deps)

\* ---- C26 -----------------------------------------------------------------
\* C26: when AddDependency(t, d) and MarkCompleted(d) of one owner were in
\* flight together and both have been accepted, t is not Blocked with every
\* one of its dependencies Completed: the status AddDependency writes is not
\* based on a status of d read before MarkCompleted wrote it.
C26_NoStaleBlock ==
  \A i \in DOMAIN inflight, j \in DOMAIN inflight :
    LET a == inflight[i]
        m == inflight[j]
    IN ( /\ Answered
         /\ a.op = "addDependency" /\ a.res.status = 201
         /\ m.op = "markAsCompleted" /\ m.res.status = 200
         /\ m.t = ToInt(a.d) )
       => ~(tasks[a.t].status = "Blocked" /\ ~HasIncompleteDependency(DB, a.t))

\* ---- C27 -----------------------------------------------------------------
\* C27: the subtask check and the write of Completed of MarkCompleted(p) behave
\* as one step: while a creation of a subtask or an update of a task is in
\* flight next to it, MarkCompleted(p) never reaches its write of Completed to a
\* task p of the caller that has a subtask which is not Completed.
C27_CheckAndWriteAtomic ==
  \A i \in DOMAIN inflight, j \in DOMAIN inflight :
    LET m == inflight[i]
        o == inflight[j]
    IN ( /\ m.op = "markAsCompleted" /\ m.pc = "update"
         /\ o.op \in {"createSubtask", "updateTask"}
         /\ findById(DB, m.t, m.u) )
       => ~HasIncompleteSubtask(DB, m.t)

\* ---- C28 -----------------------------------------------------------------
\* a task of a directed cycle of E is toTaskId or can be reached from it
CycleReachableFrom(E, toTaskId) ==
  \E n \in {toTaskId} \cup ReachableFrom(E, toTaskId) : n \in ReachableFrom(E, n)

C29_OnlySubtasksConsulted ==
  \A u \in Users, t \in TaskIds :
    findById(DB, t, u)
    => LET r == markAsCompletedHandler(DB, u, t)
       IN IF HasIncompleteSubtask(DB, t)
            THEN r.res.status = 400 /\ r.db = DB
          ELSE r.res.status = 200 /\ r.db.tasks[t].status = "Completed"

\* a Blocked task with a dependency that is not Completed is moved to Completed
C29_Witness ==
  \E u \in Users, t \in TaskIds :
    /\ findById(DB, t, u)
    /\ tasks[t].status = "Blocked"
    /\ HasIncompleteDependency(DB, t)
    /\ LET r == markAsCompletedHandler(DB, u, t)
       IN /\ r.res.status = 200
          /\ r.db.tasks[t].status = "Completed"
          /\ HasIncompleteDependency(r.db, t)

\* ---- C30 -----------------------------------------------------------------
\* the statuses of all tasks
Statuses(db) == [t \in DOMAIN db.tasks |-> db.tasks[t].status]

\* C30: for a task of the caller, an update that sets only the status to
\* Completed and MarkCompleted are equivalent: both are rejected because of a
\* subtask that is not Completed, or both succeed, and they leave the same
\* statuses on all tasks.
C30_CompletionPathsEquivalent ==
  \A u \in Users, t \in TaskIds :
    findById(DB, t, u)
    => LET put == updateTask(DB, u, t, [c \in {"status"} |-> "Completed"])
           patch == markAsCompletedHandler(DB, u, t)
       IN /\ put.res.status = patch.res.status
          /\ put.res.status \in {200, 400}
          /\ put.res.status = 400 => HasIncompleteSubtask(DB, t)
          /\ Statuses(put.db) = Statuses(patch.db)
====
